---- MODULE Spec2Model ----
(***************************************************************************)
(* Model of the UNMC timetable-to-ICS converter: timetable_parser.py       *)
(* (get_available_classes, create_ics and the functions under it) and the  *)
(* part of app.py's render_page that calls them.                           *)
(*                                                                         *)
(* Text is a sequence of one-character strings.  A page is the sequence of *)
(* its <p> and <table> elements in document order; a table is the sequence *)
(* of its rows and a row the sequence of the texts of its cells.           *)
(***************************************************************************)
EXTENDS Integers, Sequences, FiniteSets, TLC

VARIABLES
    doc,                  \* the parsed page (soup)
    academic_year_start,  \* the date of st.date_input
    phase,                \* where render_page is
    class_options,        \* the list fetch_class_options returned
    class_filter,         \* the class_filter argument of the last create_ics call
    cal,                  \* the components of the Calendar object of create_ics
    raised,               \* whether create_ics ended by raising
    visits,               \* the calls of parse_day_table: header, day_offset, table, events added
    calendar_data,        \* what create_ics returned
    intent                \* how the week-range text of the row was written (SpecRow)

vars == <<doc, academic_year_start, phase, class_options, class_filter, cal,
          raised, visits, calendar_data, intent>>

----------------------------------------------------------------------------
(* Bounds of the model *)

\* the number of tokens (<p>, <table> with its header row, <tr>) of a page
MaxTokens == 4
\* the largest week number of a generated week range
MaxWeek == 2
\* the largest number of comma-separated pieces of a generated week-range text
MaxPieces == 2

----------------------------------------------------------------------------
(* Text: str.strip, str.split, int(), strptime('%H:%M') *)

Range(s) == {s[i] : i \in 1..Len(s)}

DigitChars == <<"0", "1", "2", "3", "4", "5", "6", "7", "8", "9">>

IsDigit(c) == \E i \in 1..10 : DigitChars[i] = c

DigitVal(c) == (CHOOSE i \in 1..10 : DigitChars[i] = c) - 1

RECURSIVE lstrip(_)
lstrip(s) == IF Len(s) > 0 /\ s[1] = " " THEN lstrip(Tail(s)) ELSE s

RECURSIVE rstrip(_)
rstrip(s) == IF Len(s) > 0 /\ s[Len(s)] = " " THEN rstrip(SubSeq(s, 1, Len(s) - 1)) ELSE s

\* str.strip()
strip(s) == rstrip(lstrip(s))

\* str.split(c) for a one-character separator: always at least one piece
RECURSIVE split(_, _)
split(s, c) ==
    IF c \notin Range(s) THEN <<s>>
    ELSE LET i == CHOOSE k \in 1..Len(s) : s[k] = c /\ \A j \in 1..(k - 1) : s[j] # c
         IN  <<SubSeq(s, 1, i - 1)>> \o split(SubSeq(s, i + 1, Len(s)), c)

\* int(s) raises ValueError unless s, stripped, is a non-empty run of digits
int_ok(s) == LET t == strip(s) IN Len(t) > 0 /\ \A i \in 1..Len(t) : IsDigit(t[i])

RECURSIVE digits_value(_)
digits_value(t) ==
    IF Len(t) = 0 THEN 0
    ELSE 10 * digits_value(SubSeq(t, 1, Len(t) - 1)) + DigitVal(t[Len(t)])

int(s) == digits_value(strip(s))

\* datetime.strptime(time_str, '%H:%M').time(): one or two digits each, 0..23 and 0..59
parse_time_ok(time_str) ==
    LET parts == split(time_str, ":")
        field_ok(p, hi) == /\ Len(p) \in 1..2
                           /\ \A i \in 1..Len(p) : IsDigit(p[i])
                           /\ digits_value(p) <= hi
    IN  Len(parts) = 2 /\ field_ok(parts[1], 23) /\ field_ok(parts[2], 59)

parse_time(time_str) ==
    LET parts == split(time_str, ":")
    IN  [hour |-> digits_value(parts[1]), minute |-> digits_value(parts[2])]

----------------------------------------------------------------------------
(* Dates: datetime.date, date + timedelta, date.weekday() *)

is_leap(y) == y % 4 = 0 /\ (y % 100 # 0 \/ y % 400 = 0)

DaysInMonth == <<31, 28, 31, 30, 31, 30, 31, 31, 30, 31, 30, 31>>

days_in_month(y, m) == IF m = 2 /\ is_leap(y) THEN 29 ELSE DaysInMonth[m]

RECURSIVE days_before_month(_, _)
days_before_month(y, m) ==
    IF m = 1 THEN 0 ELSE days_before_month(y, m - 1) + days_in_month(y, m - 1)

days_before_year(y) ==
    (y - 1) * 365 + ((y - 1) \div 4) - ((y - 1) \div 100) + ((y - 1) \div 400)

\* date.toordinal()
ymd2ord(d) == days_before_year(d.year) + days_before_month(d.year, d.month) + d.day

\* date.fromordinal(n)
ord2ymd(n) ==
    LET n0   == n - 1
        n400 == n0 \div 146097
        r400 == n0 % 146097
        n100 == r400 \div 36524
        r100 == r400 % 36524
        n4   == r100 \div 1461
        r4   == r100 % 1461
        n1   == r4 \div 365
        r1   == r4 % 365
        year == n400 * 400 + 1 + n100 * 100 + n4 * 4 + n1
    IN  IF n1 = 4 \/ n100 = 4
        THEN [year |-> year - 1, month |-> 12, day |-> 31]
        ELSE LET month == CHOOSE m \in 1..12 :
                              /\ days_before_month(year, m) <= r1
                              /\ r1 < days_before_month(year, m) + days_in_month(year, m)
             IN  [year |-> year, month |-> month,
                  day |-> r1 - days_before_month(year, month) + 1]

\* date + timedelta(days=n)
date_plus_days(d, n) == ord2ymd(ymd2ord(d) + n)

----------------------------------------------------------------------------
(* timetable_parser.py *)

\* len(cells) != 13 raises in parse_day_table
RowWidth == 13

\* len(cells) < 12 is skipped in get_available_classes
ListMinCells == 12

TzName == "Asia/Kuala_Lumpur"

\* day_map of create_ics; a <p> whose stripped text is no key is no day header
day_map == [Monday |-> 0, Tuesday |-> 1, Wednesday |-> 2, Thursday |-> 3, Friday |-> 4]

\* day_abbr of parse_table_row, indexed from 0 in the code
day_abbr == <<"MO", "TU", "WE", "TH", "FR">>

\* f"{module_code} - {module_name}"
class_label(module_code, module_name) == module_code \o <<" ", "-", " ">> \o module_name

\* cells[k].text.strip(), k counted from 0 as in the code
cell(cells, k) == strip(cells[k + 1])

\* a slip: timedelta(weeks=week_num), weeks counted from 0
get_date_for_week_from_zero(week_num, start_date) == date_plus_days(start_date, 7 * week_num)

\* get_date_for_week: academic_year_start + timedelta(weeks=week_num-1)
get_date_for_week(week_num, start_date) == date_plus_days(start_date, 7 * (week_num - 1))

\* a slip: the filter is never consulted
class_excluded_never(filter, module_code, module_name, event_type) == FALSE

\* "class_filter and not class_filter(module_code, module_name, event_type)";
\* the filter of render_page: f"{module_code} - {module_name}" in selected_classes
class_excluded(filter, module_code, module_name, event_type) ==
    filter.given /\ class_label(module_code, module_name) \notin filter.selected

\* the start, end = ... of one week_range: does it raise, and the two numbers
week_range_ok(week_range) ==
    IF "-" \in Range(week_range)
    THEN LET parts == split(strip(week_range), "-")
         IN  Len(parts) = 2 /\ int_ok(parts[1]) /\ int_ok(parts[2])
    ELSE int_ok(strip(week_range))

\* a slip: the start week taken from the end of the range
week_range_start_from_end(week_range) ==
    IF "-" \in Range(week_range)
    THEN int(split(strip(week_range), "-")[2])
    ELSE int(strip(week_range))

week_range_start(week_range) ==
    IF "-" \in Range(week_range)
    THEN int(split(strip(week_range), "-")[1])
    ELSE int(strip(week_range))

week_range_end(week_range) ==
    IF "-" \in Range(week_range)
    THEN int(split(strip(week_range), "-")[2])
    ELSE int(strip(week_range))

\* a slip: the count without the last week
rrule_count_exclusive(start, end) == end - start

\* 'count': end - start + 1
rrule_count(start, end) == end - start + 1

\* the Event built by one pass of the loop of parse_table_row
make_event(cells, day_offset, start_date, week_range) ==
    LET module_code == cell(cells, 0)
        module_name == cell(cells, 1)
        event_type  == cell(cells, 2)
        size        == cell(cells, 3)
        start_time  == cell(cells, 5)
        end_time    == cell(cells, 6)
        location    == cell(cells, 8)
        staff       == cell(cells, 11)
        start       == week_range_start(week_range)
        end         == week_range_end(week_range)
        base_date   == get_date_for_week(start, start_date)
        event_date  == date_plus_days(base_date, day_offset)
    IN  [summary     |-> module_name \o <<" ", "(">> \o event_type \o <<")">>,
         dtstart     |-> [date |-> event_date, time |-> parse_time(start_time), tz |-> TzName],
         dtend       |-> [date |-> event_date, time |-> parse_time(end_time), tz |-> TzName],
         location    |-> location,
         description |-> <<"M", "o", "d", "u", "l", "e", ":", " ">> \o module_code
                         \o <<"\n", "S", "t", "a", "f", "f", ":", " ">> \o staff
                         \o <<"\n", "S", "i", "z", "e", ":", " ">> \o size,
         rrule       |-> [freq |-> "WEEKLY", interval |-> 1,
                          count |-> rrule_count(start, end),
                          byday |-> day_abbr[day_offset + 1]]]

\* the for loop of parse_table_row from piece i on; acc is [cal, raised]
RECURSIVE week_loop(_, _, _, _, _, _)
week_loop(week_ranges, i, cells, day_offset, start_date, acc) ==
    IF i > Len(week_ranges) THEN acc
    ELSE IF \/ ~week_range_ok(week_ranges[i])
            \/ ~parse_time_ok(cell(cells, 5))
            \/ ~parse_time_ok(cell(cells, 6))
         THEN [acc EXCEPT !.raised = TRUE]
         ELSE week_loop(week_ranges, i + 1, cells, day_offset, start_date,
                        [acc EXCEPT !.cal = Append(@, make_event(cells, day_offset, start_date,
                                                                 week_ranges[i]))])

parse_table_row(cells, day_offset, acc, start_date, filter) ==
    IF class_excluded(filter, cell(cells, 0), cell(cells, 1), cell(cells, 2))
    THEN acc
    ELSE week_loop(split(cell(cells, 12), ","), 1, cells, day_offset, start_date, acc)

\* a slip: only a short row raises
row_width_at_least(cells) == Len(cells) >= RowWidth

\* len(cells) != 13 raises ValueError
row_width_ok(cells) == Len(cells) = RowWidth

\* the for loop of parse_day_table from row r on; rows[1:] skips the first row
RECURSIVE row_loop(_, _, _, _, _, _)
row_loop(rows, r, day_offset, acc, start_date, filter) ==
    IF r > Len(rows) \/ acc.raised THEN acc
    ELSE IF ~row_width_ok(rows[r])
         THEN [acc EXCEPT !.raised = TRUE]
         ELSE row_loop(rows, r + 1, day_offset,
                       parse_table_row(rows[r], day_offset, acc, start_date, filter),
                       start_date, filter)

parse_day_table(table, day_offset, acc, start_date, filter) ==
    row_loop(table.rows, 2, day_offset, acc, start_date, filter)

\* soup.find_all('p', string=lambda s: s and s.strip() in day_map): positions in the page
is_day_header(el) == el.tag = "p" /\ el.text \in DOMAIN day_map

\* day_header.find_next('table'): the first table after position i, 0 when there is none
find_next_table(page, i) ==
    IF \E j \in (i + 1)..Len(page) : page[j].tag = "table"
    THEN CHOOSE j \in (i + 1)..Len(page) :
             /\ page[j].tag = "table"
             /\ \A k \in (i + 1)..(j - 1) : page[k].tag # "table"
    ELSE 0

\* the for loop of create_ics from position i of the page on; acc is [cal, raised, visits]
RECURSIVE header_loop(_, _, _, _, _)
header_loop(page, i, acc, start_date, filter) ==
    IF i > Len(page) \/ acc.raised THEN acc
    ELSE IF ~is_day_header(page[i]) THEN header_loop(page, i + 1, acc, start_date, filter)
    ELSE LET day_offset == day_map[page[i].text]
             t          == find_next_table(page, i)
         IN  IF t = 0
             THEN header_loop(page, i + 1, acc, start_date, filter)
             ELSE LET after == parse_day_table(page[t], day_offset, acc, start_date, filter)
                  IN  header_loop(page, i + 1,
                                  [after EXCEPT !.visits = Append(@,
                                      [header |-> i, day_offset |-> day_offset, table |-> t,
                                       added |-> Len(after.cal) - Len(acc.cal)])],
                                  start_date, filter)

\* create_ics up to its return: the calendar's events, whether it raised, what it visited
create_ics(page, start_date, filter) ==
    header_loop(page, 1, [cal |-> <<>>, raised |-> FALSE, visits |-> <<>>], start_date, filter)

\* cal.to_ical(): the bytes stand for the calendar they serialise
to_ical(events) == [prodid |-> "-//UNMC Timetable//EN", version |-> "2.0", events |-> events]

NoBytes == [prodid |-> "", version |-> "", events |-> <<>>]

\* a slip: the listing uses the width check of the generation pass
listable_full_width(cells) == Len(cells) >= RowWidth

\* get_available_classes: a row of 12 cells or more adds its label to the set
listable(cells) == Len(cells) >= ListMinCells

RECURSIVE list_rows(_, _, _)
list_rows(rows, r, class_set) ==
    IF r > Len(rows) THEN class_set
    ELSE list_rows(rows, r + 1,
                   IF listable(rows[r])
                   THEN class_set \cup {class_label(cell(rows[r], 0), cell(rows[r], 1))}
                   ELSE class_set)

RECURSIVE list_tables(_, _, _)
list_tables(page, i, class_set) ==
    IF i > Len(page) THEN class_set
    ELSE list_tables(page, i + 1,
                     IF page[i].tag = "table" THEN list_rows(page[i].rows, 2, class_set)
                     ELSE class_set)

\* a slip: soup.find('table') instead of find_all, only the first table is listed
get_available_classes_first_table(page) ==
    IF \E i \in 1..Len(page) : page[i].tag = "table"
    THEN LET i == CHOOSE k \in 1..Len(page) :
                      page[k].tag = "table" /\ \A j \in 1..(k - 1) : page[j].tag # "table"
         IN  list_rows(page[i].rows, 2, {})
    ELSE {}

get_available_classes(page) == list_tables(page, 1, {})

----------------------------------------------------------------------------
(* The pages the site can answer with *)

\* str(n) of a week number
RECURSIVE Fmt(_)
Fmt(n) == IF n < 10 THEN <<DigitChars[n + 1]>> ELSE Fmt(n \div 10) \o <<DigitChars[(n % 10) + 1]>>

\* a row of n cells: columns 0, 1, 2, 3, 5, 6, 8, 11, 12 carry text, columns 4, 7, 9, 10
\* and any column past 12 are empty
MkRow(n, module_code, module_name, start_time, end_time, weeks_text) ==
    [k \in 1..n |->
        CASE k = 1  -> module_code
          [] k = 2  -> module_name
          [] k = 3  -> <<"L">>
          [] k = 4  -> <<"3", "0">>
          [] k = 6  -> start_time
          [] k = 7  -> end_time
          [] k = 9  -> <<"R">>
          [] k = 12 -> <<"S">>
          [] k = 13 -> weeks_text
          [] OTHER  -> <<>>]

\* the header row of a table, 13 <th> cells
HeaderRow == [k \in 1..RowWidth |-> <<"h">>]

P(text) == [tag |-> "p", text |-> text]

Table(rows) == [tag |-> "table", rows |-> rows]

\* the texts of the <p> elements of a page: the five day names and one other paragraph
HeadingTexts == DOMAIN day_map \cup {"Week"}

\* modules as the cells hold them (the second with padding that strip() removes)
ModuleA == [code |-> <<"A">>, name |-> <<"x">>]
ModuleB == [code |-> <<" ", "B">>, name |-> <<"y", " ">>]

NineOClock == <<"9", ":", "0", "0">>
TenThirty  == <<"1", "0", ":", "3", "0">>

\* the rows of the page-level specification: two well-formed rows of 13 cells, rows of
\* 11, 12 and 14 cells, and rows of 13 cells with a malformed week range or start time
GoodRowA  == MkRow(RowWidth, ModuleA.code, ModuleA.name, NineOClock, TenThirty, <<"1", "-", "2">>)
GoodRowB  == MkRow(RowWidth, ModuleB.code, ModuleB.name, NineOClock, TenThirty, <<"2">>)
BadWeeksB == MkRow(RowWidth, ModuleB.code, ModuleB.name, NineOClock, TenThirty, <<"x">>)
BadTimeA  == MkRow(RowWidth, ModuleA.code, ModuleA.name, <<"9", "a", "m">>, TenThirty, <<"2">>)
Row11B    == MkRow(RowWidth - 2, ModuleB.code, ModuleB.name, NineOClock, TenThirty, <<>>)
Row12A    == MkRow(RowWidth - 1, ModuleA.code, ModuleA.name, NineOClock, TenThirty, <<>>)
Row14A    == MkRow(RowWidth + 1, ModuleA.code, ModuleA.name, NineOClock, TenThirty, <<"1", "-", "2">>)

PageRows == {GoodRowA, GoodRowB, BadWeeksB, BadTimeA, Row11B, Row12A, Row14A}

\* tokens of a page: one per <p>, one per table row (the header row comes with <table>)
RECURSIVE Tokens(_)
Tokens(page) ==
    IF Len(page) = 0 THEN 0
    ELSE Tokens(SubSeq(page, 1, Len(page) - 1))
         + (IF page[Len(page)].tag = "table" THEN Len(page[Len(page)].rows) ELSE 1)

\* week-range pieces as they are written: "N", "N-M" (also M < N) and a malformed one
Single(n) == [kind |-> "single", n |-> n, m |-> n, text |-> Fmt(n)]
WeekRange(n, m) == [kind |-> "range", n |-> n, m |-> m, text |-> Fmt(n) \o <<"-">> \o Fmt(m)]
Junk(text) == [kind |-> "junk", n |-> 0, m |-> 0, text |-> text]

Pieces ==
    {Single(n) : n \in 1..MaxWeek}
    \cup {WeekRange(n, m) : n \in 1..MaxWeek, m \in 1..MaxWeek}
    \cup {Junk(<<"x">>)}

\* the example of the parser's comment: "23-30, 32-35"
ExampleIntent == <<WeekRange(23, 30), WeekRange(32, 35)>>

\* an empty cell, and a piece of three numbers
OddIntents == {<<Junk(<<>>)>>, <<Junk(<<"1", "-", "2", "-", "3">>)>>}

Intents ==
    UNION {[1..k -> Pieces] : k \in 1..MaxPieces} \cup {ExampleIntent} \cup OddIntents

\* the text of cell 12: the pieces joined by ", "
RECURSIVE WeeksText(_)
WeeksText(in) ==
    IF Len(in) = 0 THEN <<>>
    ELSE IF Len(in) = 1 THEN in[1].text
    ELSE in[1].text \o <<",", " ">> \o WeeksText(Tail(in))

\* start and end time cells: well-formed, and one with a start time strptime rejects
GoodTimes == <<NineOClock, TenThirty>>
BadTimes  == <<<<"9", "a", "m">>, TenThirty>>

Date(y, m, d) == [year |-> y, month |-> m, day |-> d]

\* datetime(2024, 9, 2), the default of st.date_input
DefaultStart == Date(2024, 9, 2)

\* dates the user can pick: the default Monday, the Monday before a leap day, and a
\* Wednesday a week before the year ends
StartDates == {DefaultStart, Date(2024, 2, 26), Date(2024, 12, 25)}

\* the date picked and the time cells of the row: every date with well-formed times, and
\* the malformed start time under the default date
RowSettings ==
    {[start |-> d, times |-> GoodTimes] : d \in StartDates}
    \cup {[start |-> DefaultStart, times |-> BadTimes]}

DayNames == <<"Monday", "Tuesday", "Wednesday", "Thursday", "Friday">>

----------------------------------------------------------------------------
(* The state machine *)

NoFilter == [given |-> FALSE, selected |-> {}]

Filter(selected) == [given |-> TRUE, selected |-> selected]

\* the orders of list(class_options), which the sort of fetch_class_options permutes
Orderings(S) ==
    {f \in [1..Cardinality(S) -> S] : \A i, j \in 1..Cardinality(S) : f[i] = f[j] => i = j}

Blank ==
    /\ phase = "page"
    /\ class_options = <<>>
    /\ class_filter = NoFilter
    /\ cal = <<>>
    /\ raised = FALSE
    /\ visits = <<>>
    /\ calendar_data = NoBytes

\* the page grows token by token; the date input holds its default
Init ==
    /\ doc = <<>>
    /\ academic_year_start = DefaultStart
    /\ intent = <<>>
    /\ Blank

\* one day header, one table of one row, every way of writing the row and picking the date
InitRow ==
    /\ \E d \in 1..5, in \in Intents, s \in RowSettings :
          /\ intent = in
          /\ doc = <<P(DayNames[d]),
                     Table(<<HeaderRow,
                             MkRow(RowWidth, ModuleB.code, ModuleB.name, s.times[1],
                                   s.times[2], WeeksText(in))>>)>>
          /\ academic_year_start = s.start
    /\ Blank

unchanged_run == UNCHANGED <<class_options, class_filter, cal, raised, visits, calendar_data>>

\* the response holds one more <p>
AddParagraph(text) ==
    /\ phase = "page"
    /\ Tokens(doc) < MaxTokens
    /\ doc' = Append(doc, P(text))
    /\ UNCHANGED <<academic_year_start, intent, phase>>
    /\ unchanged_run

\* the response holds one more <table>, with its header row
AddTable ==
    /\ phase = "page"
    /\ Tokens(doc) < MaxTokens
    /\ doc' = Append(doc, Table(<<HeaderRow>>))
    /\ UNCHANGED <<academic_year_start, intent, phase>>
    /\ unchanged_run

\* the last table of the response holds one more <tr>
AddRow(cells) ==
    /\ phase = "page"
    /\ Tokens(doc) < MaxTokens
    /\ Len(doc) > 0
    /\ doc[Len(doc)].tag = "table"
    /\ doc' = [doc EXCEPT ![Len(doc)].rows = Append(@, cells)]
    /\ UNCHANGED <<academic_year_start, intent, phase>>
    /\ unchanged_run

\* render_page: class_options = fetch_class_options(timetable_url)
FetchClassOptions ==
    /\ phase = "page"
    /\ class_options' \in Orderings(get_available_classes(doc))
    /\ phase' = "listed"
    /\ UNCHANGED <<doc, academic_year_start, intent, class_filter, cal, raised, visits,
                   calendar_data>>

\* what a call of create_ics leaves
RunCreateIcs(filter) ==
    \E run \in {create_ics(doc, academic_year_start, filter)} :
        /\ class_filter' = filter
        /\ cal' = run.cal
        /\ raised' = run.raised
        /\ visits' = run.visits
        /\ calendar_data' = IF run.raised THEN NoBytes ELSE to_ical(run.cal)
        /\ phase' = "generated"
        /\ UNCHANGED <<doc, academic_year_start, intent, class_options>>

\* render_page: the pills are set (by default all of them) and "Generate Calendar" is pressed
GenerateCalendar ==
    /\ phase = "listed"
    /\ \E selected_classes \in SUBSET Range(class_options) :
          RunCreateIcs(Filter(selected_classes))

\* create_ics(url, academic_year_start) called with class_filter=None
CreateIcsNoFilter ==
    /\ phase = "page"
    /\ RunCreateIcs(NoFilter)

Next ==
    \/ \E text \in HeadingTexts : AddParagraph(text)
    \/ AddTable
    \/ \E cells \in PageRows : AddRow(cells)
    \/ FetchClassOptions
    \/ GenerateCalendar
    \/ CreateIcsNoFilter

Spec == Init /\ [][Next]_vars

NextRow ==
    \/ FetchClassOptions
    \/ GenerateCalendar
    \/ CreateIcsNoFilter

SpecRow == InitRow /\ [][NextRow]_vars

----------------------------------------------------------------------------
(* What the claims speak of, read off the page itself *)

Generated == phase = "generated"

\* the page has a day header at i
DayHeaderAt(i) == doc[i].tag = "p" /\ doc[i].text \in DOMAIN day_map

\* table j is the first table after the day header at i
FollowsHeader(i, j) ==
    /\ i < j
    /\ DayHeaderAt(i)
    /\ doc[j].tag = "table"
    /\ \A k \in (i + 1)..(j - 1) : doc[k].tag # "table"

\* the tables create_ics scans, and their rows after the header row
WeekdayTables == {j \in 1..Len(doc) : \E i \in 1..Len(doc) : FollowsHeader(i, j)}

ScannedRows == UNION {{<<j, r>> : r \in 2..Len(doc[j].rows)} : j \in WeekdayTables}

\* all rows of all tables after each table's first row
ListedRows ==
    UNION {{<<j, r>> : r \in 2..Len(doc[j].rows)} : j \in {k \in 1..Len(doc) : doc[k].tag = "table"}}

RowAt(jr) == doc[jr[1]].rows[jr[2]]

LabelOf(cells) == strip(cells[1]) \o <<" ", "-", " ">> \o strip(cells[2])

\* the row is kept by the filter of the run
Kept(cells) == ~class_filter.given \/ LabelOf(cells) \in class_filter.selected

\* SpecRow: the one row of the page, its day offset, and whether its text is well-formed
TheRow == doc[2].rows[2]
TheOffset == day_map[doc[1].text]
TimesWellFormed == TheRow[6] = NineOClock /\ TheRow[7] = TenThirty
PiecesWellFormed == \A i \in 1..Len(intent) : intent[i].kind # "junk" /\ intent[i].n <= intent[i].m

\* date.weekday() of the standard library: Monday is 0
weekday(d) == (ymd2ord(d) + 6) % 7

ValidDate(d) ==
    /\ d.month \in 1..12
    /\ d.day >= 1
    /\ d.day <= (IF d.month = 2 /\ d.year % 4 = 0 /\ (d.year % 100 # 0 \/ d.year % 400 = 0)
                 THEN 29 ELSE <<31, 28, 31, 30, 31, 30, 31, 31, 30, 31, 30, 31>>[d.month])

----------------------------------------------------------------------------
(* C1 *)

\* C1: full-calendar generation is all-or-nothing on the row width: when a row after the
\* header row of a table that follows a day header has a number of cells other than 13,
\* create_ics raises and returns no bytes, whatever was expanded before; bytes are
\* returned only when every scanned row has 13 cells.
C1_AllOrNothing ==
    Generated =>
        /\ (\E jr \in ScannedRows : Len(RowAt(jr)) # 13) => (raised /\ calendar_data = NoBytes)
        /\ (calendar_data # NoBytes) => (\A jr \in ScannedRows : Len(RowAt(jr)) = 13)
        /\ raised <=> (calendar_data = NoBytes)

\* an earlier row was expanded into events, a later row of 14 cells ended the run
C1_Witness ==
    /\ Generated
    /\ Len(cal) > 0
    /\ raised
    /\ calendar_data = NoBytes
    /\ \E jr \in ScannedRows : Len(RowAt(jr)) = 14
    /\ \A jr \in ScannedRows : Len(RowAt(jr)) >= 13

----------------------------------------------------------------------------
(* C2 *)

\* C2 as stated: a kept row whose week-range text has k well-formed pieces ("N-M" with
\* N <= M, or "N") adds exactly k events, in the order of the pieces, the i-th with
\* COUNT = end_i - start_i + 1.
C2_Original ==
    (Generated /\ Kept(TheRow) /\ PiecesWellFormed) =>
        /\ Len(cal) = Len(intent)
        /\ \A i \in 1..Len(intent) : cal[i].rrule.count = intent[i].m - intent[i].n + 1

\* C2 amended: the same, for a row whose start and end time cells parse as HH:MM; the
\* run then does not raise, and a single week gives COUNT 1.
C2_Amended ==
    (Generated /\ Kept(TheRow) /\ PiecesWellFormed
        /\ parse_time_ok(strip(TheRow[6])) /\ parse_time_ok(strip(TheRow[7]))) =>
        /\ ~raised
        /\ Len(cal) = Len(intent)
        /\ \A i \in 1..Len(intent) :
              /\ cal[i].rrule.count = intent[i].m - intent[i].n + 1
              /\ cal[i].rrule.freq = "WEEKLY"
              /\ (intent[i].kind = "single" => cal[i].rrule.count = 1)

\* two pieces, a range of two weeks and then a single week, gave COUNT 2 and COUNT 1
C2_Witness ==
    /\ Generated
    /\ Kept(TheRow)
    /\ Len(intent) = 2
    /\ intent[1].kind = "range" /\ intent[1].n < intent[1].m
    /\ intent[2].kind = "single"
    /\ Len(cal) = 2
    /\ cal[1].rrule.count = 2
    /\ cal[2].rrule.count = 1

----------------------------------------------------------------------------
(* C3 *)

\* C3: every event's DTSTART and DTEND fall on the date academic_year_start +
\* 7 * (N - 1) + weekday_offset days, N the start week of its piece; week 1 with offset 0
\* falls on academic_year_start itself.
C3_AnchorDate ==
    Generated =>
        \A i \in 1..Len(cal) :
            /\ i <= Len(intent)
            /\ ValidDate(cal[i].dtstart.date)
            /\ ymd2ord(cal[i].dtstart.date)
                  = ymd2ord(academic_year_start) + 7 * (intent[i].n - 1) + TheOffset
            /\ cal[i].dtend.date = cal[i].dtstart.date
            /\ (intent[i].n = 1 /\ TheOffset = 0 => cal[i].dtstart.date = academic_year_start)

\* week 2, Thursday, from Monday 2024-02-26: the event falls on 2024-03-07, past the leap day
C3_Witness ==
    /\ Generated
    /\ academic_year_start = Date(2024, 2, 26)
    /\ TheOffset = 3
    /\ Len(cal) = 1
    /\ intent[1].n = 2
    /\ cal[1].dtstart.date = Date(2024, 3, 7)

----------------------------------------------------------------------------
(* C4 *)

\* C4 as stated: for every date the caller supplies, the weekday of every event's DTSTART
\* is Monday + weekday_offset and BYDAY names that weekday.
C4_Original ==
    Generated =>
        \A i \in 1..Len(cal) :
            /\ weekday(cal[i].dtstart.date) = TheOffset
            /\ cal[i].rrule.byday = <<"MO", "TU", "WE", "TH", "FR">>[TheOffset + 1]

----------------------------------------------------------------------------
(* C5 *)

\* C5 as stated, its last sentence: a filter that keeps no row yields a calendar with no
\* events.
C5_Original ==
    (Generated /\ class_filter.given /\ \A jr \in ScannedRows : ~Kept(RowAt(jr))) =>
        (~raised /\ calendar_data = to_ical(<<>>))

\* C5 amended: a row the filter does not keep adds no event and its week-range and time
\* text is not parsed: when every scanned row has 13 cells and every kept scanned row is
\* well-formed, the run does not raise, however malformed the other rows, and no event
\* is of a row that was not kept; a filter that keeps no row yields a calendar with no
\* events provided every scanned row has 13 cells.
C5_FilterFirst ==
    (Generated /\ class_filter.given /\ \A jr \in ScannedRows : Len(RowAt(jr)) = 13) =>
        /\ (\A jr \in ScannedRows : Kept(RowAt(jr)) => RowAt(jr) \in {GoodRowA, GoodRowB})
              => (~raised /\ calendar_data = to_ical(cal))
        /\ \A i \in 1..Len(cal) :
              \E jr \in ScannedRows :
                  /\ Kept(RowAt(jr))
                  /\ cal[i].summary = strip(RowAt(jr)[2]) \o <<" ", "(">> \o strip(RowAt(jr)[3])
                                          \o <<")">>
        /\ (\A jr \in ScannedRows : ~Kept(RowAt(jr)))
              => (~raised /\ cal = <<>> /\ calendar_data = to_ical(<<>>))

\* a row with a malformed week range and a row with a malformed time were both scanned
\* and not kept, a well-formed row was kept, and the calendar was returned
C5_Witness ==
    /\ Generated
    /\ class_filter.given
    /\ ~raised
    /\ \E jr \in ScannedRows : RowAt(jr) = BadWeeksB /\ ~Kept(BadWeeksB)
    /\ \E jr \in ScannedRows : RowAt(jr) = GoodRowA /\ Kept(GoodRowA)
    /\ Len(cal) > 0

----------------------------------------------------------------------------
(* C6 *)

\* C6: the class listing skips a row of fewer than 12 cells and holds, exactly once, the
\* label of every row of 12 cells or more of every table, first rows apart.
C6_Listing ==
    (phase = "listed") =>
        /\ \A i, j \in 1..Len(class_options) : class_options[i] = class_options[j] => i = j
        /\ Range(class_options) = {LabelOf(RowAt(jr)) : jr \in {x \in ListedRows : Len(RowAt(x)) >= 12}}

\* a table with no day header holds a row of 12 cells, a row of 11 cells and a row of 13
\* cells; the listing holds the one label of the rows of 12 and 13 cells
C6_Witness ==
    /\ phase = "listed"
    /\ \E jr \in ListedRows : RowAt(jr) = Row12A
    /\ \E jr \in ListedRows : RowAt(jr) = Row11B
    /\ \E jr \in ListedRows : RowAt(jr) = GoodRowA
    /\ class_options = <<LabelOf(Row12A)>>

----------------------------------------------------------------------------
(* C7 *)

\* C7 as stated: a range "N-M" with M < N in a kept row is a fatal error: no event has
\* COUNT <= 0 and no calendar is returned.
C7_Original ==
    Generated =>
        /\ \A i \in 1..Len(cal) : cal[i].rrule.count >= 1
        /\ (Kept(TheRow) /\ \E i \in 1..Len(intent) : intent[i].kind = "range" /\ intent[i].m < intent[i].n)
              => (raised /\ calendar_data = NoBytes)

----------------------------------------------------------------------------
(* C8 *)

ExampleText == <<"2", "3", "-", "3", "0", ",", " ", "3", "2", "-", "3", "5">>

ExampleCase ==
    /\ Generated
    /\ Len(TheRow) = 13
    /\ TheRow[13] = ExampleText
    /\ TheOffset = 0
    /\ academic_year_start = Date(2024, 9, 2)
    /\ Kept(TheRow)
    /\ TimesWellFormed

\* C8 as stated: "23-30, 32-35", offset 0, start 2024-09-02 gives two events, starting
\* 2024-09-02 with COUNT 8 and 2024-10-28 with COUNT 4.
C8_Original ==
    ExampleCase =>
        /\ Len(cal) = 2
        /\ cal[1].dtstart.date = Date(2024, 9, 2) /\ cal[1].rrule.count = 8
        /\ cal[2].dtstart.date = Date(2024, 10, 28) /\ cal[2].rrule.count = 4

\* C8 amended: the two events start on 2025-02-03 (week 23) with COUNT 8 and on
\* 2025-04-07 (week 32) with COUNT 4.
C8_Amended ==
    ExampleCase =>
        /\ ~raised
        /\ Len(cal) = 2
        /\ cal[1].dtstart.date = Date(2025, 2, 3) /\ cal[1].rrule.count = 8
        /\ cal[2].dtstart.date = Date(2025, 4, 7) /\ cal[2].rrule.count = 4
        /\ cal[1].rrule.byday = "MO" /\ cal[2].rrule.byday = "MO"

C8_Witness == ExampleCase /\ Len(cal) = 2 /\ calendar_data = to_ical(cal)

----------------------------------------------------------------------------
(* C9 *)

\* the day header at i has a table of its own: a table before the next day header
HasOwnTable(i) ==
    \E j \in (i + 1)..Len(doc) :
        /\ doc[j].tag = "table"
        /\ \A k \in (i + 1)..(j - 1) : ~DayHeaderAt(k)

\* C9 as stated: a day header with no table of its own contributes zero events and no
\* error, and no table's rows are expanded under two different day offsets.
C9_Original ==
    Generated =>
        /\ \A v \in 1..Len(visits) :
              ~HasOwnTable(visits[v].header) => visits[v].added = 0
        /\ \A v, w \in 1..Len(visits) :
              (visits[v].table = visits[w].table /\ visits[v].added > 0 /\ visits[w].added > 0)
                  => visits[v].day_offset = visits[w].day_offset

----------------------------------------------------------------------------
(* C10 *)

\* C10: on a page on which create_ics without a filter succeeds, every row it expands has
\* its label in the class listing, and create_ics with the filter "label is in the full
\* listing" emits exactly the events of create_ics without a filter.
C10_ListingCovers ==
    /\ (Generated /\ ~class_filter.given /\ ~raised) =>
          \A jr \in ScannedRows : LabelOf(RowAt(jr)) \in get_available_classes(doc)
    /\ (Generated /\ class_filter.given /\ class_filter.selected = Range(class_options)) =>
          \A plain \in {create_ics(doc, academic_year_start, NoFilter)} :
              ~plain.raised => (~raised /\ cal = plain.cal /\ calendar_data = to_ical(plain.cal))

\* the default selection of a page with rows of both modules gave both modules' events
C10_Witness ==
    /\ Generated
    /\ class_filter.given
    /\ class_filter.selected = Range(class_options)
    /\ Len(class_options) = 2
    /\ ~raised
    /\ Len(cal) >= 2
    /\ \E i, j \in 1..Len(cal) : cal[i].summary # cal[j].summary

====
